---- MODULE Spec2Model ----
(***************************************************************************)
(* Event-sourced synchronisation of the point-of-sale app: one relay and   *)
(* its clients, each with a local store (events, orders, outboxes,         *)
(* journals), exchanging sync / applied / ack / broadcast / processed      *)
(* messages over TcpService.                                               *)
(*                                                                         *)
(* Conventions.  Record ids generated by the store are pairs <<device, n>> *)
(* drawn from a per-device counter.  Timestamps (ackedAt, syncedAt,        *)
(* closedAt, voidedAt) are kept as "set / not set".  A database.write block *)
(* is one atomic step: the store serialises its writers.  No operation of  *)
(* the specifications below deletes records.                               *)
(***************************************************************************)
EXTENDS Integers, Sequences, FiniteSets, TLC

\* ---------------------------------------------------------------- bounds
MaxActs == 4         \* operations the users start (Spec)
MaxInFlight == 2     \* messages queued on one socket direction
MaxOps == 4          \* operations of the single device of SpecOrder / SpecOutbox
MaxDay == 2          \* calendar days the clock runs through (SpecOutbox)
MaxCalls == 2        \* concurrent getOrCreate calls in flight (SpecContainer)
MaxMade == 1         \* orders a device creates next to the calls (SpecContainer)
MaxMakes == 3        \* orders created in SpecCleanup
MaxPrice == 15       \* greatest unit price, either side of zero (SpecTotals)
MaxChanges == 2      \* changes of an order's items (SpecTotals)
MaxServers == 2      \* server objects the relay creates (SpecTcp)
MaxSockets == 3      \* sockets the clients create (SpecTcp)
MaxTcpOps == 5       \* calls of TcpService and transport errors (SpecTcp)

\* ---------------------------------------------------------------- devices
Relay == "R"
Clients == {"A", "B"}
Devices == {Relay} \cup Clients

isRelay(d) == d = Relay

NoId == <<"-", 0>>

VARIABLES
  events,        \* [device -> sequence of Event records, in insertion order]
  orders,        \* [device -> sequence of Order records]
  outboxes,      \* [device -> sequence of Outbox records]
  journals,      \* [device -> sequence of Journal records]
  nextId,        \* [device -> next generated record id]
  today,         \* the calendar date (a day number)
  role,          \* [device -> TcpService.role]
  connectedClients, \* TcpService.connectedClients of the relay
  toRelay,       \* [client -> messages written to the relay, not yet read]
  toClient,      \* [client -> messages written to that client, not yet read]
  lastOp,        \* history: the operation the last step performed
  heard,         \* history: [client -> greatest lamportClock of the broadcasts
                 \*           it has processed]
  sent,          \* history: [client -> ids of the events it has sent]
  acts,          \* history: how many operations the users have started
  calls,         \* [caller -> the getOrCreateTodays... call it is running]
  server,        \* [device -> TcpService.server: a server object, 0 for null]
  client,        \* [device -> TcpService.client: a socket, 0 for null]
  clientsInfo,   \* the keys of TcpService.clientsInfo of the relay
  clientSocket,  \* [client id -> the socket connectedClients maps it to, 0
                 \*  when the id is no key of the map]
  heartbeatInterval, \* [device -> TcpService.heartbeatInterval is set]
  timers,        \* [device -> number of interval timers running]
  servers,       \* [server object -> its state]
  socks,         \* [socket -> its two ends and the data in flight]
  initialized    \* [device -> DeviceService holds deviceId, userId, venueId]

vars == <<events, orders, outboxes, journals, nextId, today, role,
          connectedClients, toRelay, toClient, lastOp, heard,
          sent, acts, calls, server, client, clientSocket, heartbeatInterval,
          timers, servers, socks, initialized, clientsInfo>>

store == <<events, orders, outboxes, journals, nextId>>
tcp == <<role, connectedClients, toRelay, toClient>>
wire == <<server, client, clientSocket, heartbeatInterval, timers, servers, socks,
          clientsInfo>>

\* ---------------------------------------------------------------- helpers
Range(s) == {s[i] : i \in DOMAIN s}

RECURSIVE SumSeq(_)
SumSeq(s) == IF s = <<>> THEN 0 ELSE Head(s) + SumSeq(Tail(s))

Op(name, d, ids, dup) == [op |-> name, dev |-> d, ids |-> ids, dup |-> dup]

Find(recs, id) == {i \in DOMAIN recs : recs[i].id = id}

\* a || b of JavaScript on numbers: b when a is 0 (or missing)
OrElse(a, b) == IF a # 0 THEN a ELSE b

\* ---------------------------------------------------------------- order data
NoPayload ==
  [items |-> <<>>, subtotalCents |-> 0, discountCents |-> 0, taxCents |-> 0,
   troncCents |-> 0, totalCents |-> 0]

Item(price, qty) ==
  [unitPriceCents |-> price, quantity |-> qty, subtotalCents |-> price * qty]

\* Math.round(subtotal * 0.1) and Math.round(subtotal * 0.12): the integer
\* nearest to the product, a half going up, below zero too (the double
\* subtotal * 0.1 is the half itself when subtotal ends in 5, and
\* subtotal * 0.12 is never near a half)
RoundTax(subtotal) == (subtotal + 5) \div 10
RoundTronc(subtotal) == (12 * subtotal + 50) \div 100

ItemsSubtotal(items) == SumSeq([i \in DOMAIN items |-> items[i].subtotalCents])

generateRandomOrder(items) ==
  LET subtotal == ItemsSubtotal(items)
      tax == RoundTax(subtotal)
      tronc == RoundTronc(subtotal)
  IN [items |-> items, subtotalCents |-> subtotal, discountCents |-> 0,
      taxCents |-> tax, troncCents |-> tronc,
      totalCents |-> subtotal + tax + tronc]

\* ---------------------------------------------------------------- containers
\* getOrCreateTodaysOutboxInternal / getOrCreateTodaysJournalInternal:
\* the container of today's date, created when the query finds none.
Todays(recs) == {i \in DOMAIN recs : recs[i].date = today}

HasTodays(recs) == Todays(recs) # {}

NewContainer(d) ==
  [id |-> <<d, nextId[d]>>, date |-> today, status |-> "pending",
   syncedAt |-> FALSE]

getOrCreateTodays(recs, d) ==
  IF HasTodays(recs) THEN recs ELSE Append(recs, NewContainer(d))

TodaysId(recs) == recs[CHOOSE i \in Todays(recs) : \A j \in Todays(recs) : i <= j].id

\* ---------------------------------------------------------------- allocation
\* eventsCollection.query(Q.sortBy("sequence", Q.desc)).fetch()[0]: an event
\* of greatest sequence; which one among equals is up to the store.
existingEvents(log) ==
  {i \in DOMAIN log : \A j \in DOMAIN log : log[j].sequence <= log[i].sequence}

maxSequence(log, top) == IF log = <<>> THEN 0 ELSE log[top].sequence

maxLamportClock(log, top) == IF log = <<>> THEN 0 ELSE log[top].lamportClock

Tops(log) == IF log = <<>> THEN {0} ELSE existingEvents(log)

\* the increment left out
NextSequenceSame(m) == m

NextSequence(m) == m + 1

NextLamportClockSame(m) == m

NextLamportClock(m) == m + 1

\* an event linked to its container through both fields
LocalEventBoth(d, id, top, type, entityId, payload, containerId) ==
  [id |-> id,
   sequence |-> NextSequence(maxSequence(events[d], top)),
   lamportClock |-> NextLamportClock(maxLamportClock(events[d], top)),
   entity |-> "order", entityId |-> entityId, type |-> type,
   payload |-> payload, deviceId |-> d,
   status |-> IF isRelay(d) THEN "acked" ELSE "pending",
   ackedAt |-> isRelay(d), appliedAt |-> TRUE,
   errorMessage |-> "",
   outboxId |-> containerId,
   journalId |-> containerId]

\* The event an OrderService operation creates on device d (steps 1 and 3 of
\* createOrder, the same in closeOrder, voidOrder, updateOrderItems and
\* applyDiscount).
LocalEvent(d, id, top, type, entityId, payload, containerId) ==
  [id |-> id,
   sequence |-> NextSequence(maxSequence(events[d], top)),
   lamportClock |-> NextLamportClock(maxLamportClock(events[d], top)),
   entity |-> "order", entityId |-> entityId, type |-> type,
   payload |-> payload, deviceId |-> d,
   status |-> IF isRelay(d) THEN "acked" ELSE "pending",
   ackedAt |-> isRelay(d), appliedAt |-> TRUE,
   errorMessage |-> "",
   outboxId |-> IF isRelay(d) THEN NoId ELSE containerId,
   journalId |-> IF isRelay(d) THEN containerId ELSE NoId]

\* ---------------------------------------------------------------- callers
\* The asynchronous calls of getOrCreateTodaysOutbox / getOrCreateTodaysJournal
\* in flight: pc is the await the call stands at, date the date it computed,
\* result the id of the record it returned.
Callers == 1 .. MaxCalls

NoCall == [pc |-> "idle", kind |-> "none", dev |-> Relay, date |-> 0,
           result |-> NoId]

\* ---------------------------------------------------------------- sockets
\* A socket created by TcpSocket.createConnection, with the end the relay's
\* handleClientConnection holds: cstate / rstate are the states of the two
\* ends, clientId the variable of handleClientConnection's closure, up / down
\* the data written and not yet read.
ServerObjects == 1 .. MaxServers
Sockets == 1 .. MaxSockets

NoSocket == [owner |-> Relay, cstate |-> "free", rstate |-> "none",
             clientId |-> "", up |-> <<>>, down |-> <<>>]

\* ---------------------------------------------------------------- init
Init ==
  /\ events = [d \in Devices |-> <<>>]
  /\ orders = [d \in Devices |-> <<>>]
  /\ outboxes = [d \in Devices |-> <<>>]
  /\ journals = [d \in Devices |-> <<>>]
  /\ nextId = [d \in Devices |-> 1]
  /\ today = 1
  /\ role = [d \in Devices |-> "none"]
  /\ connectedClients = {}
  /\ toRelay = [c \in Clients |-> <<>>]
  /\ toClient = [c \in Clients |-> <<>>]
  /\ lastOp = Op("init", Relay, {}, FALSE)
  /\ heard = [c \in Clients |-> 0]
  /\ sent = [c \in Clients |-> {}]
  /\ acts = 0
  /\ calls = [p \in Callers |-> NoCall]
  /\ server = [d \in Devices |-> 0]
  /\ client = [d \in Devices |-> 0]
  /\ clientSocket = [c \in Clients |-> 0]
  /\ clientsInfo = {}
  /\ heartbeatInterval = [d \in Devices |-> FALSE]
  /\ timers = [d \in Devices |-> 0]
  /\ servers = [k \in ServerObjects |-> "free"]
  /\ socks = [s \in Sockets |-> NoSocket]
  /\ initialized = [d \in Devices |-> TRUE]

\* ---------------------------------------------------------------- OrderService
\* The container part shared by the five operations: today's journal on the
\* relay, today's outbox on a client, and the ids the step consumes.
ContainerStep(d) ==
  /\ outboxes' = IF isRelay(d) THEN outboxes
                 ELSE [outboxes EXCEPT ![d] = getOrCreateTodays(@, d)]
  /\ journals' = IF isRelay(d)
                 THEN [journals EXCEPT ![d] = getOrCreateTodays(@, d)]
                 ELSE journals

ContainerIsNew(d) ==
  IF isRelay(d) THEN ~HasTodays(journals[d]) ELSE ~HasTodays(outboxes[d])

ContainerId(d) ==
  IF ContainerIsNew(d) THEN <<d, nextId[d]>>
  ELSE IF isRelay(d) THEN TodaysId(journals[d]) ELSE TodaysId(outboxes[d])

FirstFree(d) == IF ContainerIsNew(d) THEN nextId[d] + 1 ELSE nextId[d]

createOrder(d, orderData) ==
  \E top \in Tops(events[d]) :
    LET orderId == <<d, FirstFree(d)>>
        eventId == <<d, FirstFree(d) + 1>>
        event == LocalEvent(d, eventId, top, "add_item", orderId, orderData,
                            ContainerId(d))
        order == [id |-> orderId, status |-> "open",
                  items |-> orderData.items,
                  subtotalCents |-> orderData.subtotalCents,
                  discountCents |-> orderData.discountCents,
                  taxCents |-> orderData.taxCents,
                  troncCents |-> orderData.troncCents,
                  totalCents |-> orderData.totalCents,
                  createdByEventId |-> eventId,
                  updatedByEventId |-> eventId,
                  closedAt |-> FALSE, voidedAt |-> FALSE]
    IN /\ ContainerStep(d)
       /\ events' = [events EXCEPT ![d] = Append(@, event)]
       /\ orders' = [orders EXCEPT ![d] = Append(@, order)]
       /\ nextId' = [nextId EXCEPT ![d] = FirstFree(d) + 2]
       /\ lastOp' = Op("createOrder", d, {eventId}, FALSE)
       /\ UNCHANGED <<today, tcp, heard, sent>>

\* closeOrder, voidOrder, updateOrderItems, applyDiscount: ordersCollection
\* .find(orderId), one new event, then order.update leaving the order as
\* changed.
OrderOp(d, name, k, type, payload, changed) ==
  \E top \in Tops(events[d]) :
    LET order == orders[d][k]
        eventId == <<d, FirstFree(d)>>
        event == LocalEvent(d, eventId, top, type, order.id, payload,
                            ContainerId(d))
    IN /\ ContainerStep(d)
       /\ events' = [events EXCEPT ![d] = Append(@, event)]
       /\ orders' = [orders EXCEPT ![d][k] =
                       [changed EXCEPT !.updatedByEventId = eventId]]
       /\ nextId' = [nextId EXCEPT ![d] = FirstFree(d) + 1]
       /\ lastOp' = Op(name, d, {eventId}, FALSE)
       /\ UNCHANGED <<today, tcp, heard, sent>>

Closed(o) == [o EXCEPT !.status = "closed", !.closedAt = TRUE]

closeOrder(d, k) ==
  OrderOp(d, "closeOrder", k, "close_check",
          [NoPayload EXCEPT !.totalCents = orders[d][k].totalCents],
          Closed(orders[d][k]))

Voided(o) == [o EXCEPT !.status = "voided", !.voidedAt = TRUE]

voidOrder(d, k) == OrderOp(d, "voidOrder", k, "void_item", NoPayload, Voided(orders[d][k]))

updateOrderItems(d, k, items) ==
  LET subtotal == ItemsSubtotal(items)
      tax == RoundTax(subtotal)
      tronc == RoundTronc(subtotal)
      total == subtotal + tax + tronc
      Updated(o) == [o EXCEPT !.items = items, !.subtotalCents = subtotal,
                              !.taxCents = tax, !.troncCents = tronc,
                              !.totalCents = total]
  IN OrderOp(d, "updateOrderItems", k, "change_quantity",
             [NoPayload EXCEPT !.items = items], Updated(orders[d][k]))

applyDiscount(d, k, discountCents) ==
  LET Discounted(o) ==
        [o EXCEPT !.discountCents = discountCents,
                  !.totalCents = o.subtotalCents - discountCents
                                 + o.taxCents + o.troncCents]
  IN OrderOp(d, "applyDiscount", k, "apply_discount",
             [NoPayload EXCEPT !.discountCents = discountCents],
             Discounted(orders[d][k]))

\* OrderService.markAsClosed: the order is updated in a write of its own; no
\* event is created and updatedByEventId is left as it was.
markAsClosed(d, k) ==
  /\ orders' = [orders EXCEPT ![d][k] = Closed(@)]
  /\ lastOp' = Op("markAsClosed", d, {}, FALSE)
  /\ UNCHANGED <<events, outboxes, journals, nextId, today, tcp, heard, sent>>

\* ---------------------------------------------------------------- inputs
Menu == {450}
Quantities == {1, 2}
ItemLists == {<<Item(p, q)>> : p \in Menu, q \in Quantities}
Discounts == {0, 200}
SyncItemLists == {<<Item(450, 1)>>}

\* ---------------------------------------------------------------- SpecOrder
\* One client device working on its orders.
NextOrder ==
  \E d \in {"A"} :
    /\ Len(events[d]) < MaxOps
    /\ UNCHANGED <<acts, calls, wire, initialized>>
    /\ \/ \E items \in ItemLists : createOrder(d, generateRandomOrder(items))
       \/ \E k \in DOMAIN orders[d] : closeOrder(d, k)
       \/ \E k \in DOMAIN orders[d] : voidOrder(d, k)
       \/ \E k \in DOMAIN orders[d], items \in ItemLists :
            updateOrderItems(d, k, items)
       \/ \E k \in DOMAIN orders[d], c \in Discounts : applyDiscount(d, k, c)
       \/ \E k \in DOMAIN orders[d] : markAsClosed(d, k)

SpecOrder == Init /\ [][NextOrder]_vars

\* ---------------------------------------------------------------- EventService
\* EventService.createEvent: inside one database.write, today's outbox, the
\* event of greatest sequence, and a new pending event of that outbox.  The
\* call commits only when today's outbox exists: otherwise
\* getOrCreateTodaysOutbox opens a database.write of its own, which waits
\* behind the writer that awaits it.
createEvent(d, type, k) ==
  \E top \in Tops(events[d]) :
    LET eventId == <<d, nextId[d]>>
        event == [LocalEvent(d, eventId, top, type, orders[d][k].id, NoPayload,
                             NoId)
                    EXCEPT !.status = "pending", !.ackedAt = FALSE,
                           !.appliedAt = FALSE,
                           !.outboxId = TodaysId(outboxes[d]),
                           !.journalId = NoId]
    IN /\ HasTodays(outboxes[d])
       /\ events' = [events EXCEPT ![d] = Append(@, event)]
       /\ nextId' = [nextId EXCEPT ![d] = @ + 1]
       /\ lastOp' = Op("createEvent", d, {eventId}, FALSE)
       /\ UNCHANGED <<orders, outboxes, journals, today, tcp, heard, sent>>

\* an updateEventStatus that renumbers the event it touches
updateEventStatusRenumbering(d, i, status, errorMessage) ==
  /\ events' = [events EXCEPT ![d][i] =
                  [@ EXCEPT !.status = status, !.sequence = @ + 1]]
  /\ lastOp' = Op("updateEventStatus", d, {events[d][i].id}, FALSE)
  /\ UNCHANGED <<orders, outboxes, journals, nextId, today, tcp, heard, sent>>

\* EventService.updateEventStatus(eventId, status, errorMessage): the event
\* found by id takes the status; errorMessage when one is given; ackedAt when
\* the status is acked.
updateEventStatus(d, i, status, errorMessage) ==
  /\ events' = [events EXCEPT ![d][i] =
                  [@ EXCEPT !.status = status,
                            !.errorMessage =
                              IF errorMessage # "" THEN errorMessage ELSE @,
                            !.ackedAt = IF status = "acked" THEN TRUE ELSE @]]
  /\ lastOp' = Op("updateEventStatus", d, {events[d][i].id}, FALSE)
  /\ UNCHANGED <<orders, outboxes, journals, nextId, today, tcp, heard, sent>>

EventStatus == {"pending", "acked", "rejected"}
ErrorMessages == {"", "failed"}

\* ---------------------------------------------------------------- SpecEvent
\* The relay and one client creating events, and EventService changing the
\* status of stored events.
NextEvent ==
  /\ UNCHANGED <<acts, calls, wire, initialized>>
  /\ \/ \E d \in {Relay, "A"}, items \in SyncItemLists :
          Len(events[d]) < MaxMade /\ createOrder(d, generateRandomOrder(items))
     \/ \E k \in DOMAIN orders["A"] :
          Len(events["A"]) <= MaxMade /\ createEvent("A", "void_item", k)
     \/ \E d \in {Relay, "A"} : \E i \in DOMAIN events[d] :
          \E status \in EventStatus, errorMessage \in ErrorMessages :
            updateEventStatus(d, i, status, errorMessage)

SpecEvent == Init /\ [][NextEvent]_vars

\* ---------------------------------------------------------------- OutboxService
\* confirmApplied(appliedEventIds): the outboxes of the events found are set
\* to "synced"; nothing is written when no id is given or none is found.
confirmApplied(d, appliedEventIds) ==
  LET appliedEvents == {i \in DOMAIN events[d] : events[d][i].id \in appliedEventIds}
      outboxIds == {events[d][i].outboxId : i \in appliedEvents} \ {NoId}
      Synced(o) == IF o.id \in outboxIds
                   THEN [o EXCEPT !.status = "synced", !.syncedAt = TRUE]
                   ELSE o
  IN /\ outboxes' = IF appliedEventIds = {} \/ appliedEvents = {}
                    THEN outboxes
                    ELSE [outboxes EXCEPT ![d] =
                            [j \in DOMAIN @ |-> Synced(@[j])]]
     /\ lastOp' = Op("confirmApplied", d, appliedEventIds, FALSE)
     /\ UNCHANGED <<events, orders, journals, nextId, today, tcp, heard, sent>>

\* The calendar date moves on (OutboxService.getTodayDate reads the clock).
Tick ==
  /\ today < MaxDay
  /\ today' = today + 1
  /\ lastOp' = Op("tick", Relay, {}, FALSE)
  /\ UNCHANGED <<store, tcp, heard, sent>>

StoredIds(d) == {events[d][i].id : i \in DOMAIN events[d]}

\* ---------------------------------------------------------------- SpecOutbox
\* One client device, its outboxes over the days, and confirmApplied called
\* with any subset of the stored event ids.
NextOutbox ==
  /\ UNCHANGED <<acts, calls, wire, initialized>>
  /\ \E d \in {"A"} :
    \/ /\ Len(events[d]) < MaxOps
       /\ \E items \in ItemLists : createOrder(d, generateRandomOrder(items))
    \/ \E ids \in SUBSET StoredIds(d) : confirmApplied(d, ids)
    \/ Tick

SpecOutbox == Init /\ [][NextOutbox]_vars

\* ---------------------------------------------------------------- containers
OnDate(recs, date) == {i \in DOMAIN recs : recs[i].date = date}

FirstOnDate(recs, date) ==
  recs[CHOOSE i \in OnDate(recs, date) : \A j \in OnDate(recs, date) : i <= j].id

Call(pc, kind, d, date, result) ==
  [pc |-> pc, kind |-> kind, dev |-> d, date |-> date, result |-> result]

\* OutboxService.getOrCreateTodaysOutbox up to its return or its
\* database.write: the date is computed and the outboxes of that date are
\* queried, outside any write.
getOrCreateTodaysOutboxQuery(p, d) ==
  /\ calls[p].pc = "idle"
  /\ calls' = [calls EXCEPT ![p] =
                 IF OnDate(outboxes[d], today) # {}
                 THEN Call("done", "outbox", d, today,
                           FirstOnDate(outboxes[d], today))
                 ELSE Call("create", "outbox", d, today, NoId)]
  /\ lastOp' = Op("getOrCreateTodaysOutbox", d, {}, FALSE)
  /\ UNCHANGED <<store, today, tcp, heard, sent>>

\* ... and its database.write, which creates the outbox without a second look
getOrCreateTodaysOutboxCreate(p) ==
  LET d == calls[p].dev
      id == <<d, nextId[d]>>
  IN /\ calls[p].pc = "create" /\ calls[p].kind = "outbox"
     /\ outboxes' = [outboxes EXCEPT ![d] =
                       Append(@, [NewContainer(d) EXCEPT !.date = calls[p].date])]
     /\ nextId' = [nextId EXCEPT ![d] = @ + 1]
     /\ calls' = [calls EXCEPT ![p].pc = "done", ![p].result = id]
     /\ lastOp' = Op("getOrCreateTodaysOutbox", d, {id}, FALSE)
     /\ UNCHANGED <<events, orders, journals, today, tcp, heard, sent>>

\* JournalService.getOrCreateTodaysJournal up to its database.write: the date
\* is computed and the writer is queued.
getOrCreateTodaysJournalCall(p, d) ==
  /\ calls[p].pc = "idle"
  /\ calls' = [calls EXCEPT ![p] = Call("write", "journal", d, today, NoId)]
  /\ lastOp' = Op("getOrCreateTodaysJournal", d, {}, FALSE)
  /\ UNCHANGED <<store, today, tcp, heard, sent>>

\* a writer that creates the journal whatever the query found
getOrCreateTodaysJournalBlind(p) ==
  LET d == calls[p].dev
      id == <<d, nextId[d]>>
  IN /\ calls[p].pc = "write" /\ calls[p].kind = "journal"
     /\ journals' = [journals EXCEPT ![d] =
                       Append(@, [NewContainer(d) EXCEPT !.date = calls[p].date])]
     /\ nextId' = [nextId EXCEPT ![d] = @ + 1]
     /\ calls' = [calls EXCEPT ![p].pc = "done", ![p].result = id]
     /\ lastOp' = Op("getOrCreateTodaysJournal", d, {id}, FALSE)
     /\ UNCHANGED <<events, orders, outboxes, today, tcp, heard, sent>>

\* ... and its writer: query and create inside one database.write
getOrCreateTodaysJournal(p) ==
  LET d == calls[p].dev
      date == calls[p].date
      found == OnDate(journals[d], date) # {}
      id == IF found THEN FirstOnDate(journals[d], date) ELSE <<d, nextId[d]>>
  IN /\ calls[p].pc = "write" /\ calls[p].kind = "journal"
     /\ journals' = IF found THEN journals
                    ELSE [journals EXCEPT ![d] =
                            Append(@, [NewContainer(d) EXCEPT !.date = date])]
     /\ nextId' = IF found THEN nextId ELSE [nextId EXCEPT ![d] = @ + 1]
     /\ calls' = [calls EXCEPT ![p].pc = "done", ![p].result = id]
     /\ lastOp' = Op("getOrCreateTodaysJournal", d, {id}, FALSE)
     /\ UNCHANGED <<events, orders, outboxes, today, tcp, heard, sent>>

\* ---------------------------------------------------------------- SpecContainer
\* The relay and one client: calls of the two getOrCreate services in flight
\* (outbox calls on the client, journal calls on the relay), next to
\* OrderService creating its containers inside its own writes, over the days.
\* Callers are taken in the order of their numbers.
Hosts == {Relay, "A"}

Free(p) == calls[p].pc = "idle" /\ \A q \in 1 .. (p - 1) : calls[q].pc # "idle"

NextContainer ==
  /\ UNCHANGED <<acts, wire, initialized>>
  /\ \/ \E p \in Callers : Free(p) /\ getOrCreateTodaysOutboxQuery(p, "A")
     \/ \E p \in Callers : getOrCreateTodaysOutboxCreate(p)
     \/ \E p \in Callers : Free(p) /\ getOrCreateTodaysJournalCall(p, Relay)
     \/ \E p \in Callers : getOrCreateTodaysJournal(p)
     \/ \E d \in Hosts, items \in SyncItemLists :
          /\ Len(events[d]) < MaxMade
          /\ createOrder(d, generateRandomOrder(items))
          /\ UNCHANGED calls
     \/ Tick /\ UNCHANGED calls

SpecContainer == Init /\ [][NextContainer]_vars

\* ---------------------------------------------------------------- TcpService
Msg(type, d, data) == [type |-> type, deviceId |-> d, data |-> data]

\* The event fields a sync or broadcast message carries.
EventData(e) ==
  [eventId |-> e.id, sequence |-> e.sequence, entity |-> e.entity,
   entityId |-> e.entityId, eventType |-> e.type, payload |-> e.payload,
   lamportClock |-> e.lamportClock, status |-> e.status]

\* socket.write of the messages ms, in order, to every client of targets
WriteTo(targets, ms) ==
  [c \in Clients |-> IF c \in targets THEN toClient[c] \o ms ELSE toClient[c]]

Room(targets, n) == \A c \in targets : Len(toClient[c]) + n <= MaxInFlight

startServer ==
  /\ role[Relay] = "none"
  /\ role' = [role EXCEPT ![Relay] = "server"]
  /\ lastOp' = Op("startServer", Relay, {}, FALSE)
  /\ UNCHANGED <<store, today, connectedClients, toRelay, toClient, heard, sent>>

connectToServer(c) ==
  /\ role[c] = "none"
  /\ role[Relay] = "server"
  /\ role' = [role EXCEPT ![c] = "client"]
  /\ toRelay' = [toRelay EXCEPT ![c] = Append(@, Msg("join", c, NoId))]
  /\ lastOp' = Op("connectToServer", c, {}, FALSE)
  /\ UNCHANGED <<store, today, connectedClients, toClient, heard, sent>>

\* ---------------------------------------------------------------- screens
\* OutboxScreen.handleSendEvent: the Send button of a pending outbox event.
handleSendEvent(c, i) ==
  /\ role[c] = "client"
  /\ events[c][i].status = "pending"
  /\ events[c][i].outboxId # NoId
  /\ Len(toRelay[c]) < MaxInFlight
  /\ toRelay' = [toRelay EXCEPT ![c] =
                   Append(@, Msg("sync", c, EventData(events[c][i])))]
  /\ lastOp' = Op("handleSendEvent", c, {events[c][i].id}, FALSE)
  /\ sent' = [sent EXCEPT ![c] = @ \cup {events[c][i].id}]
  /\ UNCHANGED <<store, today, role, connectedClients, toClient, heard>>

\* JournalsScreen.handleBroadcastEvent: the relay sends an acked journal event
\* with sendMessage, which in the server role writes to every connected client.
handleBroadcastEvent(i) ==
  /\ role[Relay] = "server"
  /\ events[Relay][i].status = "acked"
  /\ events[Relay][i].journalId # NoId
  /\ connectedClients # {}
  /\ Room(connectedClients, 1)
  /\ toClient' = WriteTo(connectedClients,
                         <<Msg("broadcast", Relay, EventData(events[Relay][i]))>>)
  /\ lastOp' = Op("handleBroadcastEvent", Relay, {events[Relay][i].id}, FALSE)
  /\ UNCHANGED <<store, today, role, connectedClients, toRelay, heard, sent>>

\* ---------------------------------------------------------------- projection
\* handleAddItemEvent of RelayService and of ClientService (the same code):
\* the orders of a device after applying the add_item event in data.
handleAddItemEvent(ords, data) ==
  LET payload == data.payload
      existing == Find(ords, data.entityId)
      Updated(order) ==
        LET items == order.items \o payload.items
            subtotalCents ==
              SumSeq([j \in DOMAIN items |->
                        OrElse(items[j].unitPriceCents, items[j].subtotalCents)])
        IN [order EXCEPT
              !.items = items,
              !.subtotalCents = OrElse(payload.subtotalCents, subtotalCents),
              !.discountCents = OrElse(payload.discountCents, order.discountCents),
              !.taxCents = OrElse(payload.taxCents, order.taxCents),
              !.troncCents = OrElse(payload.troncCents, order.troncCents),
              !.totalCents = OrElse(payload.totalCents, order.totalCents),
              !.updatedByEventId = data.eventId]
      created ==
        [id |-> data.entityId, status |-> "open", items |-> payload.items,
         subtotalCents |-> payload.subtotalCents,
         discountCents |-> payload.discountCents,
         taxCents |-> payload.taxCents, troncCents |-> payload.troncCents,
         totalCents |-> payload.totalCents,
         createdByEventId |-> data.eventId, updatedByEventId |-> data.eventId,
         closedAt |-> FALSE, voidedAt |-> FALSE]
  IN IF existing # {}
     THEN [k \in DOMAIN ords |-> IF k \in existing THEN Updated(ords[k]) ELSE ords[k]]
     ELSE Append(ords, created)

\* handleOrderEvent inside the switch on entity: add_item is applied, every
\* other entity or event type is logged and ignored.
handleOrderEvent(ords, data) ==
  IF data.entity = "order" /\ data.eventType = "add_item"
  THEN handleAddItemEvent(ords, data)
  ELSE ords

\* recordEventInJournal with the copy of data.lamportClock left out
JournalEventNoClock(id, data, deviceId, journalId) ==
  [id |-> id, sequence |-> data.sequence, lamportClock |-> 0,
   entity |-> data.entity, entityId |-> data.entityId, type |-> data.eventType,
   payload |-> data.payload, deviceId |-> deviceId, status |-> "acked",
   ackedAt |-> TRUE, appliedAt |-> TRUE, errorMessage |-> "",
   outboxId |-> NoId,
   journalId |-> journalId]

\* The event recordEventInJournal creates from a received message.
JournalEvent(id, data, deviceId, journalId) ==
  [id |-> id, sequence |-> data.sequence, lamportClock |-> data.lamportClock,
   entity |-> data.entity, entityId |-> data.entityId, type |-> data.eventType,
   payload |-> data.payload, deviceId |-> deviceId, status |-> "acked",
   ackedAt |-> TRUE, appliedAt |-> TRUE, errorMessage |-> "",
   outboxId |-> NoId,
   journalId |-> journalId]

\* JournalService.getOrCreateTodaysJournal on device d, then the ids left
JournalId(d) ==
  IF HasTodays(journals[d]) THEN TodaysId(journals[d]) ELSE <<d, nextId[d]>>

AfterJournal(d) == IF HasTodays(journals[d]) THEN nextId[d] ELSE nextId[d] + 1

\* ---------------------------------------------------------------- RelayService
\* What the store may do to a handler: nothing, fail the write of the event
\* (recordEventInJournal throws), or fail the write of the order
\* (handleAddItemEvent throws after the event was recorded).
Failures == {"none", "record", "apply"}

\* RelayService.recordEventInJournal: the relay stores the event under an id
\* of its own.
RelayRecordId(data) == <<Relay, AfterJournal(Relay)>>

\* RelayService.onEventReceived(data, sender) with the store behaving as fail;
\* the call throws unless fail is "none".
onEventReceived(data, sender, fail) ==
  LET event == JournalEvent(RelayRecordId(data), data, sender, JournalId(Relay))
  IN /\ journals' = [journals EXCEPT ![Relay] = getOrCreateTodays(@, Relay)]
     /\ events' = IF fail = "record" THEN events
                  ELSE [events EXCEPT ![Relay] = Append(@, event)]
     /\ nextId' = [nextId EXCEPT ![Relay] =
                     IF fail = "record" THEN AfterJournal(Relay)
                     ELSE AfterJournal(Relay) + 1]
     /\ orders' = IF fail = "none"
                  THEN [orders EXCEPT ![Relay] = handleOrderEvent(@, data)]
                  ELSE orders
     /\ UNCHANGED outboxes

\* useTcpService.onMessageReceived on the relay, sync branch: the reply is
\* applied with the event id, or ack with success false when the call threw.
SyncReply(data, fail) ==
  IF fail = "none"
  THEN Msg("applied", Relay, [appliedEventIds |-> {data.eventId}])
  ELSE Msg("ack", Relay, [eventId |-> data.eventId, success |-> FALSE,
                          error |-> fail])

\* TcpService.handleClientConnection, the data handler of client c's socket:
\* join registers the client, every message but a heartbeat is relayed to the
\* other clients, then the delegate's onMessageReceived runs.
RelayReceive(c, fail) ==
  /\ role[Relay] = "server"
  /\ toRelay[c] # <<>>
  /\ LET m == Head(toRelay[c])
         joined == IF m.type = "join" THEN connectedClients \cup {c}
                   ELSE connectedClients
         others == joined \ {c}
         relayed == IF m.type # "heartbeat" THEN <<m>> ELSE <<>>
     IN /\ toRelay' = [toRelay EXCEPT ![c] = Tail(@)]
        /\ connectedClients' = joined
        /\ IF m.type = "sync"
           THEN /\ Room(others, 2) /\ Room(joined \ others, 1)
                /\ onEventReceived(m.data, m.deviceId, fail)
                /\ toClient' =
                     [x \in Clients |->
                        IF x \in others
                        THEN toClient[x] \o relayed \o <<SyncReply(m.data, fail)>>
                        ELSE IF x \in joined
                        THEN Append(toClient[x], SyncReply(m.data, fail))
                        ELSE toClient[x]]
                /\ lastOp' = Op("onEventReceived", Relay, {m.data.eventId},
                                \E i \in DOMAIN events[Relay] :
                                  /\ events[Relay][i].deviceId = m.deviceId
                                  /\ events[Relay][i].sequence = m.data.sequence)
           ELSE /\ fail = "none"
                /\ Room(others, 1)
                /\ toClient' = WriteTo(others, relayed)
                /\ lastOp' = Op(m.type, Relay, {}, FALSE)
                /\ UNCHANGED store
  /\ UNCHANGED <<today, role, heard, sent>>

\* ---------------------------------------------------------------- ClientService
\* EventService.markEventsAsAcked(eventIds): the named events become acked
\* with ackedAt stamped, and every outbox they belong to becomes synced once
\* all of its events are acked.
markEventsAsAcked(c, eventIds) ==
  LET Acked(e) == IF e.id \in eventIds
                  THEN [e EXCEPT !.status = "acked", !.ackedAt = TRUE]
                  ELSE e
      evs == [i \in DOMAIN events[c] |-> Acked(events[c][i])]
      touched == {evs[i].outboxId : i \in {j \in DOMAIN evs : evs[j].id \in eventIds}}
      Complete(o) == \A i \in DOMAIN evs :
                       evs[i].outboxId = o.id => evs[i].status = "acked"
      Synced(o) == IF o.id \in touched /\ Complete(o)
                   THEN [o EXCEPT !.status = "synced", !.syncedAt = TRUE]
                   ELSE o
  IN /\ events' = [events EXCEPT ![c] = evs]
     /\ outboxes' = [outboxes EXCEPT ![c] = [j \in DOMAIN @ |-> Synced(@[j])]]
     /\ UNCHANGED <<orders, journals, nextId>>

\* a lookup that never finds the event
checkIfEventExistsNever(c, eventId) == FALSE

\* ClientService.checkIfEventExists
checkIfEventExists(c, eventId) == Find(events[c], eventId) # {}

\* ClientService.onBroadcastReceived: skip an event already stored, else
\* record it in today's journal under the id it came with and apply it.
onBroadcastReceived(c, data, relayDeviceId) ==
  IF checkIfEventExists(c, data.eventId)
  THEN UNCHANGED store
  ELSE /\ journals' = [journals EXCEPT ![c] = getOrCreateTodays(@, c)]
       /\ events' = [events EXCEPT ![c] =
                       Append(@, JournalEvent(data.eventId, data, relayDeviceId,
                                              JournalId(c)))]
       /\ nextId' = [nextId EXCEPT ![c] = AfterJournal(c)]
       /\ orders' = [orders EXCEPT ![c] = handleOrderEvent(@, data)]
       /\ UNCHANGED outboxes

\* an applied branch that logs the confirmation and writes nothing
ClientOnAppliedLogged(c, m) ==
  /\ lastOp' = Op("applied", c, m.data.appliedEventIds, FALSE)
  /\ UNCHANGED <<store, toRelay, heard, sent>>

\* useTcpService.onMessageReceived on a client: the applied branch
ClientOnApplied(c, m) ==
  /\ markEventsAsAcked(c, m.data.appliedEventIds)
  /\ lastOp' = Op("applied", c, m.data.appliedEventIds, FALSE)
  /\ UNCHANGED <<toRelay, heard, sent>>

\* the broadcast branch: the event is processed, then processed{success} is
\* sent to the relay.  (updateLamportClock only moves a counter of
\* DeviceService that no event-creating operation reads.)
ClientOnBroadcast(c, m) ==
  /\ Len(toRelay[c]) < MaxInFlight
  /\ onBroadcastReceived(c, m.data, m.deviceId)
  /\ toRelay' = [toRelay EXCEPT ![c] =
                   Append(@, Msg("processed", c,
                                 [eventId |-> m.data.eventId, success |-> TRUE]))]
  /\ lastOp' = Op("onBroadcastReceived", c, {m.data.eventId},
                  Find(events[c], m.data.eventId) # {})
  /\ heard' = [heard EXCEPT ![c] =
                 IF m.data.lamportClock > @ THEN m.data.lamportClock ELSE @]
  /\ UNCHANGED sent

\* a client that answers every message it does not handle
ClientOnOtherReplying(c, m) ==
  /\ Len(toRelay[c]) < MaxInFlight
  /\ toRelay' = [toRelay EXCEPT ![c] =
                   Append(@, Msg("ack", c, [eventId |-> NoId, success |-> FALSE,
                                            error |-> "unknown"]))]
  /\ lastOp' = Op(m.type, c,
                  IF m.type = "ack" THEN {m.data.eventId} ELSE {}, FALSE)
  /\ UNCHANGED <<store, heard, sent>>

\* the ack branch logs the outcome; every other message type is ignored
ClientOnOther(c, m) ==
  /\ lastOp' = Op(m.type, c,
                  IF m.type = "ack" THEN {m.data.eventId} ELSE {}, FALSE)
  /\ UNCHANGED <<store, toRelay, heard, sent>>

\* TcpService.handleDataReceived on client c, then the delegate
ClientReceive(c) ==
  /\ role[c] = "client"
  /\ toClient[c] # <<>>
  /\ LET m == Head(toClient[c])
     IN /\ toClient' = [toClient EXCEPT ![c] = Tail(@)]
        /\ IF m.type = "applied" THEN ClientOnApplied(c, m)
           ELSE IF m.type = "broadcast" THEN ClientOnBroadcast(c, m)
           ELSE ClientOnOther(c, m)
  /\ UNCHANGED <<today, role, connectedClients>>

\* ---------------------------------------------------------------- Spec
\* The relay and its two clients.  The users of the relay and of client A
\* work on orders; every client sends and receives.
Creators == {Relay, "A"}

UserAct ==
  \/ \E d \in Creators, items \in SyncItemLists :
       createOrder(d, generateRandomOrder(items))
  \/ \E d \in Creators : \E k \in DOMAIN orders[d] : closeOrder(d, k)
  \/ \E k \in DOMAIN orders["A"] : createEvent("A", "void_item", k)
  \/ \E c \in Clients : \E i \in DOMAIN events[c] : handleSendEvent(c, i)
  \/ \E i \in DOMAIN events[Relay] : handleBroadcastEvent(i)

Delivery ==
  \/ startServer
  \/ \E c \in Clients : connectToServer(c)
  \/ \E c \in Clients, fail \in Failures : RelayReceive(c, fail)
  \/ \E c \in Clients : ClientReceive(c)

Next ==
  \/ acts < MaxActs /\ acts' = acts + 1 /\ UNCHANGED <<calls, wire, initialized>> /\ UserAct
  \/ UNCHANGED <<acts, calls, wire, initialized>> /\ Delivery

Spec == Init /\ [][Next]_vars

\* ---------------------------------------------------------------- TcpService, socket by socket
\* The fields of each device's TcpService, its server objects and sockets, and
\* the handlers TcpService registers on them, one step per handler.
offWire == <<store, today, toRelay, toClient, heard, sent, calls, initialized>>

SockId(s) == <<"socket", s>>

Lowest(S) == CHOOSE x \in S : \A y \in S : x <= y

FreeServers == {k \in ServerObjects : servers[k] = "free"}
FreeSockets == {s \in Sockets : socks[s].cstate = "free"}

\* socket.write(m) by the client end / by the relay end of socket s: the data
\* is queued when that end is connected; on any other socket write throws and
\* the caller logs the error.
WriteUp(sk, s, m) ==
  IF sk[s].cstate = "open" THEN [sk EXCEPT ![s].up = Append(@, m)] ELSE sk

WriteDown(sk, targets, m) ==
  [s \in DOMAIN sk |->
     IF s \in targets /\ sk[s].rstate = "open"
     THEN [sk[s] EXCEPT !.down = Append(@, m)] ELSE sk[s]]

RoomUp(s) == s # 0 => Len(socks[s].up) < MaxInFlight
RoomDown(targets) == \A s \in targets : Len(socks[s].down) < MaxInFlight

\* the sockets connectedClients holds under keys other than excludeClientId
OtherSockets(map, excludeClientId) ==
  {map[x] : x \in {y \in Clients : map[y] # 0 /\ y # excludeClientId}}

\* TcpService.sendMessage on device d, the sockets being sk: the server role
\* writes to every socket of connectedClients, the client role to this.client,
\* the role none writes nothing.
sendMessage(d, sk, type, data) ==
  IF role[d] = "server" THEN WriteDown(sk, OtherSockets(clientSocket, ""), Msg(type, d, data))
  ELSE IF role[d] = "client" /\ client[d] # 0
  THEN WriteUp(sk, client[d], Msg(type, d, data))
  ELSE sk

SendRoom(d) ==
  /\ role[d] = "server" => RoomDown(OtherSockets(clientSocket, ""))
  /\ role[d] = "client" => RoomUp(client[d])

\* startHeartbeat: a new interval timer, kept in heartbeatInterval.  (What a
\* timer sends every 30 s is a heartbeat, which no handler acts on.)
startHeartbeat(d) ==
  /\ heartbeatInterval' = [heartbeatInterval EXCEPT ![d] = TRUE]
  /\ timers' = [timers EXCEPT ![d] = @ + 1]

\* the rejection of startServer / connectToServer
Rejected(d) ==
  /\ lastOp' = Op("AlreadyRunning", d, {}, FALSE)
  /\ UNCHANGED <<role, connectedClients, wire>>

\* a call that goes on whatever the role is
startServerCallUnguarded(d) ==
  \E k \in FreeServers :
    /\ k = Lowest(FreeServers)
    /\ servers' = [servers EXCEPT ![k] = "starting"]
    /\ server' = [server EXCEPT ![d] = k]
    /\ lastOp' = Op("startServerCall", d, {}, FALSE)
    /\ UNCHANGED <<role, connectedClients, client, clientSocket, clientsInfo,
                   heartbeatInterval, timers, socks>>

\* TcpService.startServer up to server.listen: rejected unless the role is
\* none, else a server object is created and kept in this.server.
startServerCall(d) ==
  IF role[d] # "none" THEN Rejected(d)
  ELSE \E k \in FreeServers :
         /\ k = Lowest(FreeServers)
         /\ servers' = [servers EXCEPT ![k] = "starting"]
         /\ server' = [server EXCEPT ![d] = k]
         /\ lastOp' = Op("startServerCall", d, {}, FALSE)
         /\ UNCHANGED <<role, connectedClients, client, clientSocket, clientsInfo,
                        heartbeatInterval, timers, socks>>

\* the callback of server.listen: the port is bound (no other server object
\* listens on it), the role becomes server and the heartbeat starts
startServerListening(k) ==
  /\ servers[k] = "starting"
  /\ \A j \in ServerObjects : servers[j] # "listening"
  /\ servers' = [servers EXCEPT ![k] = "listening"]
  /\ role' = [role EXCEPT ![Relay] = "server"]
  /\ startHeartbeat(Relay)
  /\ lastOp' = Op("startServerListening", Relay, {}, FALSE)
  /\ UNCHANGED <<connectedClients, server, client, clientSocket, clientsInfo, socks>>

\* the "error" handler of a server object: onError and reject.  A server that
\* fails to listen is dead; after an error in mid-session the server object
\* goes on listening or closes, as the transport decides.
serverError(k, closes) ==
  /\ servers[k] \in {"starting", "listening"}
  /\ servers' = [servers EXCEPT ![k] =
                   IF @ = "starting" THEN "failed"
                   ELSE IF closes THEN "closing" ELSE @]
  /\ lastOp' = Op("onError", Relay, {<<"server", k>>}, servers[k] = "listening")
  /\ UNCHANGED <<role, connectedClients, server, client, clientSocket, clientsInfo,
                 heartbeatInterval, timers, socks>>

\* TcpService.cleanup on device d, the sockets and server objects being sk
\* and sv: the timer of heartbeatInterval is cleared, this.server closed,
\* this.client and every socket of connectedClients destroyed, the map
\* cleared and the role reset.  clientsInfo is left as it is.
cleanup(d, sk, sv) ==
  /\ heartbeatInterval' = [heartbeatInterval EXCEPT ![d] = FALSE]
  /\ timers' = [timers EXCEPT ![d] = IF heartbeatInterval[d] THEN @ - 1 ELSE @]
  /\ servers' = [k \in DOMAIN sv |->
                   IF k = server[d] /\ sv[k] \in {"starting", "listening"}
                   THEN "closing" ELSE sv[k]]
  /\ server' = [server EXCEPT ![d] = 0]
  /\ socks' = [s \in DOMAIN sk |->
                 IF s = client[d] /\ sk[s].cstate \in {"connecting", "open"}
                 THEN [sk[s] EXCEPT !.cstate = "destroyed"]
                 ELSE IF /\ isRelay(d)
                         /\ s \in OtherSockets(clientSocket, "")
                         /\ sk[s].rstate = "open"
                 THEN [sk[s] EXCEPT !.rstate = "ended"]
                 ELSE sk[s]]
  /\ client' = [client EXCEPT ![d] = 0]
  /\ connectedClients' = IF isRelay(d) THEN {} ELSE connectedClients
  /\ clientSocket' = IF isRelay(d) THEN [c \in Clients |-> 0] ELSE clientSocket
  /\ UNCHANGED clientsInfo
  /\ role' = [role EXCEPT ![d] = "none"]

\* the "close" handler of a server object, after server.close()
serverClosed(k) ==
  /\ servers[k] = "closing"
  /\ cleanup(Relay, socks, [servers EXCEPT ![k] = "closed"])
  /\ lastOp' = Op("serverClosed", Relay, {<<"server", k>>}, FALSE)

\* TcpService.connectToServer up to TcpSocket.createConnection: rejected
\* unless the role is none, else a socket is created and kept in this.client.
connectToServerCall(c) ==
  IF role[c] # "none" THEN Rejected(c)
  ELSE \E s \in FreeSockets :
         /\ s = Lowest(FreeSockets)
         /\ socks' = [socks EXCEPT ![s] =
                        [NoSocket EXCEPT !.owner = c, !.cstate = "connecting"]]
         /\ client' = [client EXCEPT ![c] = s]
         /\ lastOp' = Op("connectToServerCall", c, {SockId(s)}, FALSE)
         /\ UNCHANGED <<role, connectedClients, server, clientSocket, clientsInfo,
                        heartbeatInterval, timers, servers>>

\* the callback of createConnection on socket s: the role becomes client,
\* join is sent with sendMessage (through this.client) and the heartbeat
\* starts.  The relay's handleClientConnection takes the other end, its
\* clientId empty.
connectToServerConnected(s) ==
  LET c == socks[s].owner
      accepted == [socks EXCEPT ![s].cstate = "open", ![s].rstate = "open"]
  IN /\ socks[s].cstate = "connecting"
     /\ \E k \in ServerObjects : servers[k] = "listening"
     /\ RoomUp(client[c])
     /\ role' = [role EXCEPT ![c] = "client"]
     /\ socks' = IF client[c] # 0
                 THEN WriteUp(accepted, client[c], Msg("join", c, NoId))
                 ELSE accepted
     /\ startHeartbeat(c)
     /\ lastOp' = Op("connectToServerConnected", c, {SockId(s)}, FALSE)
     /\ UNCHANGED <<connectedClients, server, client, clientSocket, clientsInfo, servers>>

\* the "error" handler of a client socket: onError and reject.  The socket is
\* dead and its close event follows.
clientError(s) ==
  /\ socks[s].cstate \in {"connecting", "open"}
  /\ socks' = [socks EXCEPT ![s].cstate = "destroyed"]
  /\ lastOp' = Op("onError", socks[s].owner, {SockId(s)},
                  socks[s].cstate = "open")
  /\ UNCHANGED <<role, connectedClients, server, client, clientSocket, clientsInfo,
                 heartbeatInterval, timers, servers>>

\* the "close" handler of a client socket: cleanup, then onConnectionClosed
clientClosed(s) ==
  /\ \/ socks[s].cstate = "destroyed"
     \/ socks[s].cstate = "open" /\ socks[s].rstate \in {"ended", "closed"}
  /\ cleanup(socks[s].owner,
             [socks EXCEPT ![s].cstate = "closed", ![s].down = <<>>], servers)
  /\ lastOp' = Op("clientClosed", socks[s].owner, {SockId(s)}, FALSE)

\* TcpService.handleDataReceived: the client hands the message to its delegate
handleDataReceived(s) ==
  /\ socks[s].cstate = "open"
  /\ socks[s].down # <<>>
  /\ socks' = [socks EXCEPT ![s].down = Tail(@)]
  /\ lastOp' = Op(Head(socks[s].down).type, socks[s].owner, {SockId(s)}, FALSE)
  /\ UNCHANGED <<role, connectedClients, server, client, clientSocket, clientsInfo,
                 heartbeatInterval, timers, servers>>

\* handleClientConnection, the "data" handler of socket s on the relay: join
\* sets clientId and the map entry, every message but a heartbeat is relayed
\* to the sockets under the other keys while the role is server.
handleClientData(s) ==
  LET m == Head(socks[s].up)
      clientId == IF m.type = "join" THEN m.deviceId ELSE socks[s].clientId
      map == IF m.type = "join" THEN [clientSocket EXCEPT ![clientId] = s]
             ELSE clientSocket
      relays == role[Relay] = "server" /\ m.type # "heartbeat"
      targets == IF relays THEN OtherSockets(map, clientId) ELSE {}
      read == [socks EXCEPT ![s].up = Tail(@), ![s].clientId = clientId]
  IN /\ socks[s].rstate = "open"
     /\ socks[s].up # <<>>
     /\ RoomDown(targets)
     /\ clientSocket' = map
     /\ connectedClients' = {x \in Clients : map[x] # 0}
     /\ clientsInfo' = IF m.type = "join" THEN clientsInfo \cup {clientId}
                       ELSE clientsInfo
     /\ socks' = WriteDown(read, targets, m)
     /\ lastOp' = Op(m.type, Relay, {SockId(s)}, FALSE)
     /\ UNCHANGED <<role, server, client, heartbeatInterval, timers, servers>>

\* handleClientConnection, the "close" handler of socket s on the relay: the
\* key clientId is deleted and a leave naming it is written to the others.
handleClientClose(s) ==
  LET clientId == socks[s].clientId
      map == IF clientId # "" THEN [clientSocket EXCEPT ![clientId] = 0]
             ELSE clientSocket
      targets == IF clientId # "" THEN OtherSockets(map, clientId) ELSE {}
      closed == [socks EXCEPT ![s].rstate = "closed", ![s].up = <<>>]
  IN /\ \/ socks[s].rstate = "ended"
        \/ socks[s].rstate = "open" /\ socks[s].cstate \in {"destroyed", "closed"}
     /\ RoomDown(targets)
     /\ clientSocket' = map
     /\ connectedClients' = {x \in Clients : map[x] # 0}
     /\ clientsInfo' = clientsInfo \ {clientId}
     /\ socks' = WriteDown(closed, targets, Msg("leave", clientId, NoId))
     /\ lastOp' = Op("handleClientClose", Relay, {SockId(s)}, clientId # "")
     /\ UNCHANGED <<role, server, client, heartbeatInterval, timers, servers>>

\* TcpService.stop: leave through sendMessage while the role is set, then
\* cleanup.
stop(d) ==
  /\ SendRoom(d)
  /\ cleanup(d, sendMessage(d, socks, "leave", NoId), servers)
  /\ lastOp' = Op("stop", d, {}, FALSE)

\* handleClientConnection, the "error" handler of socket s on the relay: the
\* error is logged.  The socket is dead and its close event follows.
handleClientError(s) ==
  /\ socks[s].rstate = "open"
  /\ socks' = [socks EXCEPT ![s].rstate = "ended"]
  /\ lastOp' = Op("handleClientError", Relay, {SockId(s)}, role[Relay] = "server")
  /\ UNCHANGED <<role, connectedClients, server, client, clientSocket, clientsInfo,
                 heartbeatInterval, timers, servers>>

\* ---------------------------------------------------------------- SpecTcp
\* The relay starting and stopping its server, the clients connecting and
\* stopping, and the events of the sockets in between.
NextTcp ==
  /\ UNCHANGED offWire
  /\ \/ /\ acts < MaxTcpOps
        /\ acts' = acts + 1
        /\ \/ startServerCall(Relay)
           \/ \E c \in Clients : connectToServerCall(c)
           \/ \E d \in Devices : stop(d)
           \/ \E k \in ServerObjects, closes \in BOOLEAN : serverError(k, closes)
           \/ \E s \in Sockets : clientError(s)
           \/ \E s \in Sockets : handleClientError(s)
     \/ /\ UNCHANGED acts
        /\ \/ \E k \in ServerObjects : startServerListening(k)
           \/ \E k \in ServerObjects : serverClosed(k)
           \/ \E s \in Sockets : connectToServerConnected(s)
           \/ \E s \in Sockets : clientClosed(s)
           \/ \E s \in Sockets : handleDataReceived(s)
           \/ \E s \in Sockets : handleClientData(s)
           \/ \E s \in Sockets : handleClientClose(s)

SpecTcp == Init /\ [][NextTcp]_vars

\* ---------------------------------------------------------------- disconnecting
\* a disconnect that gives up on the events it has sent and marks them acked
disconnectAcking(d) ==
  /\ role[d] # "none"
  /\ IF isRelay(d)
     THEN /\ Room(connectedClients, 1)
          /\ toClient' = WriteTo(connectedClients, <<Msg("leave", d, NoId)>>)
          /\ toRelay' = [c \in Clients |-> <<>>]
          /\ connectedClients' = {}
          /\ UNCHANGED store
     ELSE /\ Len(toRelay[d]) < MaxInFlight
          /\ toRelay' = [toRelay EXCEPT ![d] = Append(@, Msg("leave", d, NoId))]
          /\ toClient' = [toClient EXCEPT ![d] = <<>>]
          /\ markEventsAsAcked(d, sent[d])
          /\ UNCHANGED connectedClients
  /\ role' = [role EXCEPT ![d] = "none"]
  /\ lastOp' = Op("disconnect", d, {}, FALSE)
  /\ UNCHANGED <<today, heard, sent>>

\* useTcpService.disconnect on device d: TcpService.stop sends leave and
\* cleanup destroys the sockets.  What was written to a destroyed socket and
\* not read is gone.
disconnect(d) ==
  /\ role[d] # "none"
  /\ IF isRelay(d)
     THEN /\ Room(connectedClients, 1)
          /\ toClient' = WriteTo(connectedClients, <<Msg("leave", d, NoId)>>)
          /\ toRelay' = [c \in Clients |-> <<>>]
          /\ connectedClients' = {}
     ELSE /\ Len(toRelay[d]) < MaxInFlight
          /\ toRelay' = [toRelay EXCEPT ![d] = Append(@, Msg("leave", d, NoId))]
          /\ toClient' = [toClient EXCEPT ![d] = <<>>]
          /\ UNCHANGED connectedClients
  /\ role' = [role EXCEPT ![d] = "none"]
  /\ lastOp' = Op("disconnect", d, {}, FALSE)
  /\ UNCHANGED <<store, today, heard, sent>>

\* the "close" handler of a client's socket once the relay is gone: cleanup,
\* then the delegate's onConnectionClosed
onConnectionClosed(c) ==
  /\ role[c] = "client"
  /\ role[Relay] # "server"
  /\ role' = [role EXCEPT ![c] = "none"]
  /\ toRelay' = [toRelay EXCEPT ![c] = <<>>]
  /\ toClient' = [toClient EXCEPT ![c] = <<>>]
  /\ lastOp' = Op("onConnectionClosed", c, {}, FALSE)
  /\ UNCHANGED <<store, today, connectedClients, heard, sent>>

\* the "close" handler of the relay's socket of client c, which has
\* disconnected: the client is deleted from connectedClients, the delegate's
\* onClientDisconnected runs and leave is relayed to the other clients
onClientDisconnected(c) ==
  LET others == connectedClients \ {c}
      relayed == IF c \in connectedClients THEN <<Msg("leave", c, NoId)>>
                 ELSE <<>>
  IN /\ role[Relay] = "server"
     /\ role[c] = "none"
     /\ c \in connectedClients \/ toRelay[c] # <<>>
     /\ Room(others, 1)
     /\ connectedClients' = others
     /\ toRelay' = [toRelay EXCEPT ![c] = <<>>]
     /\ toClient' = [WriteTo(others, relayed) EXCEPT ![c] = <<>>]
     /\ lastOp' = Op("onClientDisconnected", Relay, {}, FALSE)
     /\ UNCHANGED <<store, today, role, heard, sent>>

\* useTcpService.sendMessage called by a client with a message of a type the
\* sync exchange does not send from clients
OtherMessages(c) ==
  {Msg("update", c, NoId)}
    \cup {Msg("applied", c, [appliedEventIds |-> {events[c][i].id}]) :
            i \in DOMAIN events[c]}
    \cup {Msg("broadcast", c, EventData(events[c][i])) : i \in DOMAIN events[c]}

sendMessageFromHook(c, m) ==
  /\ role[c] = "client"
  /\ Len(toRelay[c]) < MaxInFlight
  /\ toRelay' = [toRelay EXCEPT ![c] = Append(@, m)]
  /\ lastOp' = Op("sendMessage", c, {}, FALSE)
  /\ UNCHANGED <<store, today, role, connectedClients, toClient, heard, sent>>

\* ---------------------------------------------------------------- SpecSession
\* The relay and its clients over connections that open and close: client A
\* creates and sends, the relay broadcasts, any device disconnects, and a
\* client connects again once the relay has seen its old socket close.
SessionAct ==
  \/ \E items \in SyncItemLists : createOrder("A", generateRandomOrder(items))
  \/ \E c \in Clients : \E i \in DOMAIN events[c] : handleSendEvent(c, i)
  \/ \E i \in DOMAIN events[Relay] : handleBroadcastEvent(i)
  \/ \E d \in Devices : disconnect(d)
  \/ \E c \in Clients : \E m \in OtherMessages(c) : sendMessageFromHook(c, m)

SessionDelivery ==
  \/ (\A c \in Clients : role[c] = "none") /\ startServer
  \/ \E c \in Clients :
       /\ c \notin connectedClients /\ toRelay[c] = <<>> /\ toClient[c] = <<>>
       /\ connectToServer(c)
  \/ \E c \in Clients, fail \in Failures : RelayReceive(c, fail)
  \/ \E c \in Clients : ClientReceive(c)
  \/ \E c \in Clients : onConnectionClosed(c)
  \/ \E c \in Clients : onClientDisconnected(c)

NextSession ==
  \/ acts < MaxActs /\ acts' = acts + 1 /\ UNCHANGED <<calls, wire, initialized>> /\ SessionAct
  \/ UNCHANGED <<acts, calls, wire, initialized>> /\ SessionDelivery

SpecSession == Init /\ [][NextSession]_vars

\* ---------------------------------------------------------------- cleanup
\* the query that leaves the status out
OldOutboxesAnyStatus(d, cutoff) ==
  {outboxes[d][j].id :
     j \in {k \in DOMAIN outboxes[d] : outboxes[d][k].date < cutoff}}

\* OutboxService.getOldOutboxes as cleanupOldOutboxes calls it, outside any
\* write: the ids of the synced outboxes dated before the cutoff.  With none
\* the call returns 0.
OldOutboxes(d, cutoff) ==
  {outboxes[d][j].id :
     j \in {k \in DOMAIN outboxes[d] :
              outboxes[d][k].date < cutoff /\ outboxes[d][k].status = "synced"}}

cleanupOldOutboxesQuery(p, d, daysOld) ==
  LET cutoff == today - daysOld
      oldOutboxes == OldOutboxes(d, cutoff)
  IN /\ calls[p].pc = "idle"
     /\ calls' = [calls EXCEPT ![p] =
                    IF oldOutboxes = {} THEN Call("done", "cleanup", d, cutoff, 0)
                    ELSE Call("write", "cleanup", d, cutoff, oldOutboxes)]
     /\ lastOp' = Op("getOldOutboxes", d, oldOutboxes, FALSE)
     /\ UNCHANGED <<store, today, tcp, heard, sent>>

\* ... and its database.write: the events of each outbox found are destroyed,
\* then the outbox; the call returns how many outboxes the query found.
cleanupOldOutboxes(p) ==
  LET d == calls[p].dev
      oldOutboxes == calls[p].result
      KeepEvent(e) == e.outboxId \notin oldOutboxes
      KeepOutbox(o) == o.id \notin oldOutboxes
  IN /\ calls[p].pc = "write" /\ calls[p].kind = "cleanup"
     /\ events' = [events EXCEPT ![d] = SelectSeq(@, KeepEvent)]
     /\ outboxes' = [outboxes EXCEPT ![d] = SelectSeq(@, KeepOutbox)]
     /\ calls' = [calls EXCEPT ![p].pc = "done",
                               ![p].result = Cardinality(oldOutboxes)]
     /\ lastOp' = Op("cleanupOldOutboxes", d, oldOutboxes, FALSE)
     /\ UNCHANGED <<orders, journals, nextId, today, tcp, heard, sent>>

DaysOld == {0, 1}

\* ---------------------------------------------------------------- SpecCleanup
\* Client A over the days: it creates orders, confirmApplied is called with
\* the events of an outbox, the broadcast of the one order the relay creates
\* is recorded in its journal, and calls of cleanupOldOutboxes run, two of
\* them at a time at most.
NextCleanup ==
  /\ UNCHANGED <<wire, initialized>>
  /\ \/ /\ acts < MaxMakes
        /\ acts' = acts + 1
        /\ UNCHANGED calls
        /\ \E d \in Hosts, items \in SyncItemLists :
             /\ d = Relay => events[Relay] = <<>>
             /\ createOrder(d, generateRandomOrder(items))
     \/ /\ UNCHANGED <<acts, calls>>
        /\ \/ \E o \in Range(outboxes["A"]) :
                /\ o.status # "synced"
                /\ confirmApplied("A", {e.id : e \in {x \in Range(events["A"]) :
                                                        x.outboxId = o.id}})
           \/ Tick
           \/ \E i \in DOMAIN events[Relay] :
                /\ ~checkIfEventExists("A", events[Relay][i].id)
                /\ onBroadcastReceived("A", EventData(events[Relay][i]), Relay)
                /\ lastOp' = Op("onBroadcastReceived", "A",
                                {events[Relay][i].id}, FALSE)
                /\ UNCHANGED <<today, tcp, heard, sent>>
     \/ /\ UNCHANGED acts
        /\ \/ \E p \in Callers, daysOld \in DaysOld :
                Free(p) /\ cleanupOldOutboxesQuery(p, "A", daysOld)
           \/ \E p \in Callers : cleanupOldOutboxes(p)

SpecCleanup == Init /\ [][NextCleanup]_vars

\* ---------------------------------------------------------------- SpecTotals
\* One client device changes the items of its order to one line of any unit
\* price, below zero too, in any of the quantities.
ChangedItemLists ==
  {<<Item(p, q)>> : p \in (0 - MaxPrice) .. MaxPrice, q \in Quantities}

NextTotals ==
  /\ UNCHANGED <<acts, calls, wire, initialized>>
  /\ \/ /\ orders["A"] = <<>>
        /\ \E items \in SyncItemLists : createOrder("A", generateRandomOrder(items))
     \/ /\ Len(events["A"]) <= MaxChanges
        /\ \E k \in DOMAIN orders["A"], items \in ChangedItemLists :
             updateOrderItems("A", k, items)

SpecTotals == Init /\ [][NextTotals]_vars

\* ---------------------------------------------------------------- SpecLog
\* EventService.markEventAsApplied(eventId): appliedAt is stamped.
markEventAsApplied(d, i) ==
  /\ events' = [events EXCEPT ![d][i].appliedAt = TRUE]
  /\ lastOp' = Op("markEventAsApplied", d, {events[d][i].id}, FALSE)
  /\ UNCHANGED <<orders, outboxes, journals, nextId, today, tcp, heard, sent>>

\* EventService.deleteEvent(eventId): the event is destroyed.
deleteEvent(d, i) ==
  /\ events' = [events EXCEPT ![d] =
                  SubSeq(@, 1, i - 1) \o SubSeq(@, i + 1, Len(@))]
  /\ lastOp' = Op("deleteEvent", d, {events[d][i].id}, FALSE)
  /\ UNCHANGED <<orders, outboxes, journals, nextId, today, tcp, heard, sent>>

\* Every operation on stored events, called on the relay and on client A:
\* those of OrderService and EventService, confirmApplied, the marking of
\* applied events as acked, and the relay's and the clients' recording of a
\* received event.
NextLog ==
  /\ acts < MaxActs
  /\ acts' = acts + 1
  /\ UNCHANGED <<calls, wire, initialized>>
  /\ \/ \E d \in Hosts, items \in SyncItemLists :
          createOrder(d, generateRandomOrder(items))
     \/ \E d \in Hosts : \E k \in DOMAIN orders[d] : closeOrder(d, k)
     \/ \E d \in Hosts : \E k \in DOMAIN orders[d], items \in SyncItemLists :
          updateOrderItems(d, k, items)
     \/ \E k \in DOMAIN orders["A"] : createEvent("A", "void_item", k)
     \/ \E d \in Hosts : \E i \in DOMAIN events[d] :
          \E status \in EventStatus, errorMessage \in ErrorMessages :
            updateEventStatus(d, i, status, errorMessage)
     \/ \E d \in Hosts : \E i \in DOMAIN events[d] : markEventAsApplied(d, i)
     \/ \E d \in Hosts : \E i \in DOMAIN events[d] : deleteEvent(d, i)
     \/ \E i \in DOMAIN events["A"] : confirmApplied("A", {events["A"][i].id})
     \/ \E i \in DOMAIN events["A"] :
          /\ markEventsAsAcked("A", {events["A"][i].id})
          /\ lastOp' = Op("applied", "A", {events["A"][i].id}, FALSE)
          /\ UNCHANGED <<today, tcp, heard, sent>>
     \/ \E i \in DOMAIN events["A"], fail \in Failures :
          /\ onEventReceived(EventData(events["A"][i]), "A", fail)
          /\ lastOp' = Op("onEventReceived", Relay, {events["A"][i].id}, FALSE)
          /\ UNCHANGED <<today, tcp, heard, sent>>
     \/ \E i \in DOMAIN events[Relay] :
          /\ onBroadcastReceived("A", EventData(events[Relay][i]), Relay)
          /\ lastOp' = Op("onBroadcastReceived", "A", {events[Relay][i].id}, FALSE)
          /\ UNCHANGED <<today, tcp, heard, sent>>

SpecLog == Init /\ [][NextLog]_vars

\* ---------------------------------------------------------------- SpecStart
\* The process of a device ends and starts again: the static fields of
\* DeviceService are null until initialize has run, the database is kept.
restart(d) ==
  /\ initialized[d]
  /\ initialized' = [initialized EXCEPT ![d] = FALSE]
  /\ lastOp' = Op("restart", d, {}, FALSE)
  /\ UNCHANGED <<store, today, tcp, heard, sent>>

\* DeviceService.initialize
initialize(d) ==
  /\ ~initialized[d]
  /\ initialized' = [initialized EXCEPT ![d] = TRUE]
  /\ lastOp' = Op("initialize", d, {}, FALSE)
  /\ UNCHANGED <<store, today, tcp, heard, sent>>

\* OrderService.createOrder while DeviceService.getDeviceId throws.  Without
\* a container of today the create callback of the container throws and
\* nothing is written.  With one, step 2 creates the order with empty event
\* ids, the create callback of the event throws in step 3, and the order
\* stays: a write is a turn in the writer queue and undoes nothing.
createOrderBeforeInitialize(d, orderData) ==
  LET order == [id |-> <<d, nextId[d]>>, status |-> "open",
                items |-> orderData.items,
                subtotalCents |-> orderData.subtotalCents,
                discountCents |-> orderData.discountCents,
                taxCents |-> orderData.taxCents,
                troncCents |-> orderData.troncCents,
                totalCents |-> orderData.totalCents,
                createdByEventId |-> NoId, updatedByEventId |-> NoId,
                closedAt |-> FALSE, voidedAt |-> FALSE]
  IN /\ IF ContainerIsNew(d)
        THEN UNCHANGED <<orders, nextId>>
        ELSE /\ orders' = [orders EXCEPT ![d] = Append(@, order)]
             /\ nextId' = [nextId EXCEPT ![d] = @ + 1]
     /\ lastOp' = Op("createOrder", d, {}, TRUE)
     /\ UNCHANGED <<events, outboxes, journals, today, tcp, heard, sent>>

\* closeOrder, voidOrder, updateOrderItems, applyDiscount while getDeviceId
\* throws: the create callback of the container or of the event throws
\* before the order is updated.
OrderOpBeforeInitialize(d, name) ==
  /\ lastOp' = Op(name, d, {}, TRUE)
  /\ UNCHANGED <<store, today, tcp, heard, sent>>

NextStart ==
  /\ UNCHANGED <<calls, wire>>
  /\ \/ /\ UNCHANGED acts
        /\ \/ \E d \in Hosts : restart(d)
           \/ \E d \in Hosts : initialize(d)
     \/ /\ acts < MaxActs
        /\ acts' = acts + 1
        /\ UNCHANGED initialized
        /\ \E d \in Hosts :
             \/ \E items \in SyncItemLists :
                  IF initialized[d]
                  THEN createOrder(d, generateRandomOrder(items))
                  ELSE createOrderBeforeInitialize(d, generateRandomOrder(items))
             \/ \E k \in DOMAIN orders[d] :
                  IF initialized[d] THEN closeOrder(d, k)
                  ELSE OrderOpBeforeInitialize(d, "closeOrder")
             \/ \E k \in DOMAIN orders[d] :
                  IF initialized[d] THEN voidOrder(d, k)
                  ELSE OrderOpBeforeInitialize(d, "voidOrder")
             \/ \E k \in DOMAIN orders[d], items \in SyncItemLists :
                  IF initialized[d] THEN updateOrderItems(d, k, items)
                  ELSE OrderOpBeforeInitialize(d, "updateOrderItems")
             \/ \E k \in DOMAIN orders[d], c \in Discounts :
                  IF initialized[d] THEN applyDiscount(d, k, c)
                  ELSE OrderOpBeforeInitialize(d, "applyDiscount")

SpecStart == Init /\ [][NextStart]_vars

\* ---------------------------------------------------------------- SpecWriter
\* database.write runs one writer at a time; a writer called while another
\* runs waits in the queue until that one has returned.  The writer of a
\* createEvent call runs from the call to its return.
WriterFree ==
  \A p \in Callers : ~(calls[p].kind = "createEvent" /\ calls[p].pc = "awaiting")

\* EventService.createEvent(eventData) for order k, up to its first await:
\* the writer of caller p starts and calls getOrCreateTodaysOutbox, which is
\* the call of caller p + 1.
createEventCall(p, d, k) ==
  /\ p + 1 \in Callers
  /\ calls[p].pc = "idle" /\ calls[p + 1].pc = "idle"
  /\ WriterFree
  /\ calls' = [calls EXCEPT
                 ![p] = Call("awaiting", "createEvent", d, today, orders[d][k].id),
                 ![p + 1] =
                   IF OnDate(outboxes[d], today) # {}
                   THEN Call("done", "outbox", d, today,
                             FirstOnDate(outboxes[d], today))
                   ELSE Call("create", "outbox", d, today, NoId)]
  /\ lastOp' = Op("createEventCall", d, {}, FALSE)
  /\ UNCHANGED <<store, today, tcp, heard, sent>>

\* ... and the rest of its writer once getOrCreateTodaysOutbox has returned:
\* the event of greatest sequence is read and the pending event is created in
\* the outbox returned.
createEventReturn(p) ==
  LET d == calls[p].dev
      eventId == <<d, nextId[d]>>
  IN /\ calls[p].kind = "createEvent" /\ calls[p].pc = "awaiting"
     /\ calls[p + 1].pc = "done"
     /\ \E top \in Tops(events[d]) :
          events' = [events EXCEPT ![d] =
                       Append(@, [LocalEvent(d, eventId, top, "void_item",
                                             calls[p].result, NoPayload, NoId)
                                    EXCEPT !.status = "pending",
                                           !.ackedAt = FALSE,
                                           !.appliedAt = FALSE,
                                           !.outboxId = calls[p + 1].result,
                                           !.journalId = NoId])]
     /\ nextId' = [nextId EXCEPT ![d] = @ + 1]
     /\ calls' = [calls EXCEPT ![p].pc = "done"]
     /\ lastOp' = Op("createEvent", d, {eventId}, FALSE)
     /\ UNCHANGED <<orders, outboxes, journals, today, tcp, heard, sent>>

\* Client A: orders are created, getOrCreateTodaysOutbox and createEvent are
\* called, the days go by.
NextWriter ==
  /\ UNCHANGED <<acts, wire, initialized>>
  /\ \/ \E p \in Callers : Free(p) /\ getOrCreateTodaysOutboxQuery(p, "A")
     \/ \E p \in Callers : WriterFree /\ getOrCreateTodaysOutboxCreate(p)
     \/ \E p \in Callers : \E k \in DOMAIN orders["A"] :
          Free(p) /\ createEventCall(p, "A", k)
     \/ \E p \in Callers : createEventReturn(p)
     \/ \E items \in SyncItemLists :
          /\ Len(orders["A"]) < MaxMade
          /\ WriterFree
          /\ createOrder("A", generateRandomOrder(items))
          /\ UNCHANGED calls
     \/ Tick /\ UNCHANGED calls

\* every continuation that can run is run
SpecWriter ==
  /\ Init
  /\ [][NextWriter]_vars
  /\ WF_vars(/\ UNCHANGED <<acts, wire, initialized>>
             /\ \E p \in Callers : WriterFree /\ getOrCreateTodaysOutboxCreate(p))
  /\ WF_vars(/\ UNCHANGED <<acts, wire, initialized>>
             /\ \E p \in Callers : createEventReturn(p))

\* ---------------------------------------------------------------- properties
EventsOf(d, containerId) ==
  {i \in DOMAIN events[d] : events[d][i].outboxId = containerId}

AllAcked(d, containerId) ==
  \A i \in EventsOf(d, containerId) : events[d][i].status = "acked"

\* C1: after any call of OutboxService.confirmApplied(ids), with ids any subset
\* of the stored event ids, an outbox is synced if and only if every event
\* whose outboxId references it is acked.
C1_OutboxCompletion ==
  lastOp.op = "confirmApplied" =>
    \A j \in DOMAIN outboxes[lastOp.dev] :
      LET o == outboxes[lastOp.dev][j]
      IN o.status = "synced" <=> AllAcked(lastOp.dev, o.id)

\* C6: every order satisfies totalCents = subtotalCents - discountCents +
\* taxCents + troncCents after any sequence of updateOrderItems and
\* applyDiscount on an order created with the equation satisfied.
C6_FinancialInvariant ==
  \A d \in Devices : \A k \in DOMAIN orders[d] :
    LET o == orders[d][k]
    IN o.totalCents = o.subtotalCents - o.discountCents + o.taxCents + o.troncCents

C3_SyncDeliveredTwice ==
  [][(lastOp'.op = "onEventReceived" /\ lastOp'.dup) =>
       (events'[Relay] = events[Relay] /\ orders'[Relay] = orders[Relay])]_vars

IdsUnique(log) ==
  \A i, j \in DOMAIN log : log[i].id = log[j].id => i = j

\* C4: the second delivery of the same broadcast message to a client finds
\* the event stored and changes neither the event log nor any order; the log
\* holds one event of that id.
C4_BroadcastDeliveredTwice ==
  /\ [](\A c \in Clients : IdsUnique(events[c]))
  /\ [][\A c \in Clients :
          (lastOp'.op = "onBroadcastReceived" /\ lastOp'.dev = c /\ lastOp'.dup)
            => (events'[c] = events[c] /\ orders'[c] = orders[c])]_vars

\* a client has skipped a broadcast whose event it had stored and applied
C4_Witness ==
  /\ lastOp.op = "onBroadcastReceived" /\ lastOp.dup
  /\ \E i \in DOMAIN events[lastOp.dev] :
       /\ events[lastOp.dev][i].id \in lastOp.ids
       /\ events[lastOp.dev][i].type = "add_item"
       /\ Find(orders[lastOp.dev], events[lastOp.dev][i].entityId) # {}

\* C5: when the relay failed to apply a synced event, the client's event of
\* that id is rejected with a non-empty errorMessage and its outbox is not
\* synced.
C5_RejectedOnFailure ==
  (lastOp.op = "ack" /\ lastOp.dev \in Clients) =>
    \A i \in DOMAIN events[lastOp.dev] :
      events[lastOp.dev][i].id \in lastOp.ids =>
        /\ events[lastOp.dev][i].status = "rejected"
        /\ events[lastOp.dev][i].errorMessage # ""
        /\ \A j \in DOMAIN outboxes[lastOp.dev] :
             outboxes[lastOp.dev][j].id = events[lastOp.dev][i].outboxId =>
               outboxes[lastOp.dev][j].status # "synced"

\* the events of d's log that d created itself, by position
Local(d) == {i \in DOMAIN events[d] : events[d][i].deviceId = d}

LocalOps ==
  {"createOrder", "closeOrder", "voidOrder", "updateOrderItems", "applyDiscount",
   "createEvent"}

\* the greatest lamportClock among the events stored before position j
MaxLamportBefore(d, j) ==
  LET before == {events[d][i].lamportClock : i \in 1 .. (j - 1)} \cup {0}
  IN CHOOSE m \in before : \A n \in before : n <= m

\* C7: of two events a device created locally, the later has the strictly
\* greater sequence, whatever replicated events were recorded in between; no
\* two locally created events have the same sequence.
C7_LocalSequencesIncrease ==
  \A d \in Devices : \A i, j \in Local(d) :
    i < j => events[d][i].sequence < events[d][j].sequence

\* a device created two events with a replicated event recorded in between
C7_Witness ==
  \E d \in Devices : \E i, j \in Local(d) :
    \E k \in DOMAIN events[d] \ Local(d) : i < k /\ k < j

\* C8: of two events a device created locally, the later has the strictly
\* greater lamportClock, and each locally created event has lamportClock 1 +
\* the greatest lamportClock of the events stored before it, replicated ones
\* included.
C8_LocalLamportIncrease ==
  \A d \in Devices : \A j \in Local(d) :
    /\ events[d][j].lamportClock = 1 + MaxLamportBefore(d, j)
    /\ \A i \in Local(d) :
         i < j => events[d][i].lamportClock < events[d][j].lamportClock

\* a device created an event, recorded a replicated event whose lamportClock
\* another device assigned, and created a second event, which follows both
C8_Witness ==
  \E d \in Devices : \E i, j \in Local(d) :
    \E k \in DOMAIN events[d] \ Local(d) :
      /\ i < k /\ k < j
      /\ events[d][k].lamportClock = MaxLamportBefore(d, j)
      /\ events[d][j].lamportClock = events[d][k].lamportClock + 1
      /\ events[d][i].lamportClock < events[d][j].lamportClock

\* C9: an event a client creates locally has a lamportClock strictly greater
\* than that of every broadcast event the client has processed before.
C9_LocalFollowsBroadcast ==
  (lastOp.dev \in Clients /\ lastOp.op \in LocalOps) =>
    events[lastOp.dev][Len(events[lastOp.dev])].lamportClock > heard[lastOp.dev]

\* a client created an event after processing a broadcast of lamportClock 2
C9_Witness ==
  /\ lastOp.dev \in Clients /\ lastOp.op \in LocalOps
  /\ heard[lastOp.dev] = 2
  /\ events[lastOp.dev][Len(events[lastOp.dev])].lamportClock = 3

\* C10: no two events of one device's log have the same sequence, on the
\* relay as on the clients.
C10_SequencesUnique ==
  \A d \in Devices : \A i, j \in DOMAIN events[d] :
    events[d][i].sequence = events[d][j].sequence => i = j

DoneCalls(kind) == {p \in Callers : calls[p].pc = "done" /\ calls[p].kind = kind}

SameResults(kind) ==
  \A p, q \in DoneCalls(kind) :
    (calls[p].dev = calls[q].dev /\ calls[p].date = calls[q].date) =>
      calls[p].result = calls[q].result

OnePerDate(recs) ==
  \A i, j \in DOMAIN recs : recs[i].date = recs[j].date => i = j

\* C11: concurrent calls of OutboxService.getOrCreateTodaysOutbox on one
\* device for one date return the same outbox id, and no device ever holds
\* two outboxes of one date.
C11_OneOutboxPerDate ==
  /\ \A d \in Devices : OnePerDate(outboxes[d])
  /\ SameResults("outbox")

\* C12: concurrent calls of JournalService.getOrCreateTodaysJournal, also
\* next to OrderService creating the journal in its own write, leave at most
\* one journal per date, and all callers of a date get that record.
C12_OneJournalPerDate ==
  /\ \A d \in Devices : OnePerDate(journals[d])
  /\ SameResults("journal")
  /\ \A p \in DoneCalls("journal") :
       \E j \in DOMAIN journals[calls[p].dev] :
         /\ journals[calls[p].dev][j].id = calls[p].result
         /\ journals[calls[p].dev][j].date = calls[p].date

\* two calls that were queued together on the relay returned the journal of a
\* locally created event
C12_Witness ==
  \E p, q \in DoneCalls("journal") :
    /\ p # q
    /\ calls[p].dev = Relay /\ calls[q].dev = Relay
    /\ calls[p].date = calls[q].date
    /\ calls[p].result = calls[q].result
    /\ \E i \in DOMAIN events[Relay] : events[Relay][i].journalId = calls[p].result

\* the events client c created for the order of id orderId, by position
EventsFor(c, orderId) ==
  {i \in Local(c) : events[c][i].entityId = orderId}

SameOrder(a, b) ==
  /\ a.status = b.status
  /\ a.subtotalCents = b.subtotalCents
  /\ a.discountCents = b.discountCents
  /\ a.taxCents = b.taxCents
  /\ a.troncCents = b.troncCents
  /\ a.totalCents = b.totalCents

\* C13: once the relay has replied applied for every event a client created
\* for an order (the client holds them all acked), the relay's order of that
\* id, which the relay's own user has not touched, has the status and the
\* financial fields of the client's order.
C13_RelayOrderMatches ==
  \A c \in Clients : \A k \in DOMAIN orders[c] :
    (/\ EventsFor(c, orders[c][k].id) # {}
     /\ EventsFor(Relay, orders[c][k].id) = {}
     /\ \A i \in EventsFor(c, orders[c][k].id) : events[c][i].status = "acked")
      => \E r \in DOMAIN orders[Relay] :
           /\ orders[Relay][r].id = orders[c][k].id
           /\ SameOrder(orders[Relay][r], orders[c][k])

\* C14: when the relay broadcasts an acked event that a client sent, the
\* message is written to the socket of every other connected client and not
\* to the socket of that client.
C14_BroadcastSkipsOrigin ==
  [][lastOp'.op = "handleBroadcastEvent" =>
       \A i \in DOMAIN events[Relay] :
         (/\ events[Relay][i].id \in lastOp'.ids
          /\ events[Relay][i].deviceId \in Clients) =>
           /\ toClient'[events[Relay][i].deviceId] =
                toClient[events[Relay][i].deviceId]
           /\ \A c \in connectedClients \ {events[Relay][i].deviceId} :
                toClient'[c] # toClient[c]]_vars

\* C15: an order that is closed or voided keeps its status through every
\* later operation.
C15_StatusTerminal ==
  [][\A d \in Devices : \A k \in DOMAIN orders[d] :
       orders[d][k].status \in {"closed", "voided"} =>
         orders'[d][k].status = orders[d][k].status]_vars

\* C16: every stored event has exactly one of outboxId and journalId set,
\* whether OrderService, EventService.createEvent or a recordEventInJournal
\* created it.
C16_OneContainer ==
  \A d \in Devices : \A i \in DOMAIN events[d] :
    (events[d][i].outboxId # NoId) # (events[d][i].journalId # NoId)

\* client A holds an event of createEvent and a recorded broadcast, and the
\* relay holds an event it recorded from A
C16_Witness ==
  /\ \E i \in DOMAIN events["A"] :
       events["A"][i].type = "void_item" /\ events["A"][i].outboxId # NoId
  /\ \E i \in DOMAIN events["A"] : events["A"][i].journalId # NoId
  /\ \E i \in DOMAIN events[Relay] :
       events[Relay][i].deviceId = "A" /\ events[Relay][i].journalId # NoId

\* C17: every event that has a journalId is acked with ackedAt set, in every
\* state.
C17_JournalEventsAcked ==
  \A d \in Devices : \A i \in DOMAIN events[d] :
    events[d][i].journalId # NoId =>
      events[d][i].status = "acked" /\ events[d][i].ackedAt

\* C18: a client sends its pending outbox events oldest first: when it sends
\* the sync message of an event, every pending event of its outbox with a
\* smaller sequence has been sent before.
C18_OldestFirst ==
  [][\A c \in Clients :
       (lastOp'.op = "handleSendEvent" /\ lastOp'.dev = c) =>
         \A i, j \in DOMAIN events[c] :
           (/\ events[c][j].id \in lastOp'.ids
            /\ events[c][i].status = "pending"
            /\ events[c][i].outboxId # NoId
            /\ events[c][i].sequence < events[c][j].sequence)
             => events[c][i].id \in sent[c]]_vars

\* C19: RelayService.onEventReceived, returning or throwing, leaves an
\* add_item event both stored in the relay's journal and applied to the
\* relay's order, or neither.
C19_EventAndOrderTogether ==
  [][\A c \in Clients :
       (/\ lastOp'.op = "onEventReceived"
        /\ toRelay[c] # <<>>
        /\ toRelay'[c] = Tail(toRelay[c])
        /\ Head(toRelay[c]).type = "sync"
        /\ Head(toRelay[c]).data.eventType = "add_item") =>
         ((events'[Relay] # events[Relay]) <=> (orders'[Relay] # orders[Relay]))
    ]_vars

\* C20: every step that changes the status, items or financial fields of a
\* stored order also stores, in the same step, an event targeting that order
\* and stamps the order's updatedByEventId with that event's id.
C20_MutationsHaveEvents ==
  [][\A d \in Devices : \A k \in DOMAIN orders[d] :
       (~SameOrder(orders[d][k], orders'[d][k])
          \/ orders'[d][k].items # orders[d][k].items) =>
         /\ Len(events'[d]) = Len(events[d]) + 1
         /\ events'[d][Len(events'[d])].entityId = orders[d][k].id
         /\ orders'[d][k].updatedByEventId = events'[d][Len(events'[d])].id]_vars

\* C21: startServer or connectToServer called while the role is server or
\* client is rejected with the "Already running" error, and the step leaves
\* the role, this.server, this.client and connectedClients as they were.
C21_AlreadyRunning ==
  [][\A d \in Devices :
       (/\ lastOp'.dev = d
        /\ lastOp'.op \in {"startServerCall", "connectToServerCall",
                           "AlreadyRunning"}
        /\ role[d] # "none") =>
         /\ lastOp'.op = "AlreadyRunning"
         /\ role' = role
         /\ server' = server
         /\ client' = client
         /\ connectedClients' = connectedClients
         /\ clientSocket' = clientSocket
         /\ servers' = servers
         /\ socks' = socks]_vars

\* the relay, its server listening and a client joined, has rejected a call
C21_Witness ==
  /\ lastOp.op = "AlreadyRunning" /\ lastOp.dev = Relay
  /\ role[Relay] = "server"
  /\ server[Relay] # 0
  /\ connectedClients # {}

\* C22: stop() called in any state sends leave while the role is still set
\* (to the relay from a client, to every connected client from the relay),
\* and when it returns the role is none, this.server and this.client are
\* null, connectedClients is empty and no heartbeat timer is running.
C22_StopReleasesAll ==
  [][\A d \in Devices :
       (lastOp'.op = "stop" /\ lastOp'.dev = d) =>
         /\ role'[d] = "none"
         /\ server'[d] = 0
         /\ client'[d] = 0
         /\ isRelay(d) => connectedClients' = {}
         /\ ~heartbeatInterval'[d]
         /\ timers'[d] = 0
         /\ (role[d] = "client" /\ client[d] # 0
               /\ socks[client[d]].cstate = "open") =>
              socks'[client[d]].up =
                Append(socks[client[d]].up, Msg("leave", d, NoId))
         /\ role[d] = "server" =>
              \A c \in connectedClients :
                socks[clientSocket[c]].rstate = "open" =>
                  socks'[clientSocket[c]].down =
                    Append(socks[clientSocket[c]].down, Msg("leave", d, NoId))
    ]_vars

CloseOps == {"disconnect", "onConnectionClosed", "onClientDisconnected"}

JoinedOpen ==
  {socks[s].clientId :
     s \in {t \in Sockets : socks[t].rstate = "open" /\ socks[t].clientId # ""}}

\* C24: on the relay, while it serves, connectedClients holds exactly the
\* device ids that have sent join on a socket that is still open, also when one device id joined
\* on more than one socket; when the socket of a joined client closes, the
\* client is removed and a leave naming it is written to every remaining
\* client.
C24_ConnectedClientsExact ==
  /\ [](role[Relay] = "server" => connectedClients = JoinedOpen)
  /\ [][\A s \in Sockets :
          (/\ lastOp'.op = "handleClientClose"
           /\ lastOp'.ids = {SockId(s)}
           /\ socks[s].rstate # "closed"
           /\ socks[s].clientId # "") =>
            /\ socks[s].clientId \notin connectedClients'
            /\ \A x \in connectedClients' :
                 socks[clientSocket[x]].rstate = "open" =>
                   socks'[clientSocket[x]].down =
                     Append(socks[clientSocket[x]].down,
                            Msg("leave", socks[s].clientId, NoId))]_vars

\* the message types the delegate of the relay / of a client has no branch for
RelayUnhandled == {"update", "applied", "broadcast"}
ClientUnhandled == {"sync", "update", "join", "leave", "processed"}

ClosePending(ids) ==
  \/ \E k \in ServerObjects : ids = {<<"server", k>>} /\ servers[k] = "closing"
  \/ \E s \in Sockets :
       /\ ids = {SockId(s)}
       /\ socks[s].cstate = "destroyed" \/ socks[s].rstate = "ended"

\* C26: a transport error on an established connection (the role is client
\* or server) is reported through the delegate's onError and resets the role
\* to none: once the error handler has run, the role is none or the close
\* handler that resets it is due.
C26_ErrorResetsRole ==
  (lastOp.op \in {"onError", "handleClientError"} /\ lastOp.dup) =>
    /\ lastOp.op = "onError"
    /\ role[lastOp.dev] = "none" \/ ClosePending(lastOp.ids)

SameFinancials(o1, o2) ==
  /\ o1.subtotalCents = o2.subtotalCents
  /\ o1.discountCents = o2.discountCents
  /\ o1.taxCents = o2.taxCents
  /\ o1.troncCents = o2.troncCents
  /\ o1.totalCents = o2.totalCents

\* client c reads a broadcast of an add_item event whose order it does not hold
AppliesNewOrder(c) ==
  /\ role[c] = "client"
  /\ toClient[c] # <<>>
  /\ Head(toClient[c]).type = "broadcast"
  /\ Head(toClient[c]).data.entity = "order"
  /\ Head(toClient[c]).data.eventType = "add_item"
  /\ Find(orders[c], Head(toClient[c]).data.entityId) = {}
  /\ toClient'[c] = Tail(toClient[c])

\* C28: when the relay broadcasts an acked add_item event to clients that do
\* not yet hold the order, each client creates an Order with the event's
\* entityId whose subtotalCents and other financial fields equal those of
\* the relay's Order, and each client replies processed with success true.
C28_BroadcastCreatesEqualOrder ==
  [][\A c \in Clients :
       AppliesNewOrder(c) =>
         LET data == Head(toClient[c]).data
         IN /\ \E k \in DOMAIN orders'[c], j \in DOMAIN orders[Relay] :
                 /\ orders'[c][k].id = data.entityId
                 /\ orders[Relay][j].id = data.entityId
                 /\ SameFinancials(orders'[c][k], orders[Relay][j])
            /\ toRelay'[c] # <<>>
            /\ toRelay'[c][Len(toRelay'[c])] =
                 Msg("processed", c, [eventId |-> data.eventId, success |-> TRUE])]_vars

\* n / d rounded to an integer, a half going away from zero (d > 0)
RoundHalfAway(n, d) ==
  IF n >= 0 THEN (2 * n + d) \div (2 * d)
  ELSE 0 - ((2 * (0 - n) + d) \div (2 * d))

\* C29: updateOrderItems (change_quantity) with items of integer
\* subtotalCents sets subtotalCents to the sum of the items' subtotalCents,
\* taxCents to subtotal * 0.10 and troncCents to subtotal * 0.12, each
\* rounded half away from zero to an integer, and totalCents to
\* subtotal + tax + tronc, for every subtotal, those below zero included.
C29_TotalsRoundHalfAway ==
  lastOp.op = "updateOrderItems" =>
    \A o \in Range(orders[lastOp.dev]) :
      o.updatedByEventId \in lastOp.ids =>
        /\ o.subtotalCents = ItemsSubtotal(o.items)
        /\ o.taxCents = RoundHalfAway(o.subtotalCents, 10)
        /\ o.troncCents = RoundHalfAway(12 * o.subtotalCents, 100)
        /\ o.totalCents = o.subtotalCents + o.taxCents + o.troncCents

OrderOps ==
  {"createOrder", "closeOrder", "voidOrder", "updateOrderItems", "applyDiscount"}

\* C31: an event-creating operation of OrderService invoked before
\* DeviceService.initialize has set the identifiers fails with an error to
\* the caller and leaves no new or changed Event, Order, Outbox or Journal.
C31_UninitializedWritesNothing ==
  [][(acts' # acts /\ lastOp'.op \in OrderOps /\ ~initialized[lastOp'.dev]) =>
       /\ lastOp'.dup
       /\ events' = events /\ orders' = orders
       /\ outboxes' = outboxes /\ journals' = journals]_vars

\* C32: EventService.createEvent always terminates, returning the new event
\* or failing with an error, also when no outbox of today exists yet: every
\* call of createEvent that has started is done at some later time.
C32_CreateEventTerminates ==
  \A p \in Callers :
    (calls[p].kind = "createEvent") ~> (calls[p].pc = "done")

\* client c reads a broadcast of an event the relay recorded as sent by c
ReadsOwnBroadcast(c) ==
  /\ role[c] = "client"
  /\ toClient[c] # <<>>
  /\ Head(toClient[c]).type = "broadcast"
  /\ toClient'[c] = Tail(toClient[c])
  /\ \E i \in DOMAIN events[Relay] :
       /\ events[Relay][i].id = Head(toClient[c]).data.eventId
       /\ events[Relay][i].deviceId = c

\* C33: after the relay has broadcast an event that client A itself
\* originated, A's Order for that entity is unchanged by the broadcast: the
\* origin never applies its own event a second time, and stores no second
\* copy of it.
C33_OriginSkipsOwnBroadcast ==
  [][\A c \in Clients :
       ReadsOwnBroadcast(c) =>
         orders'[c] = orders[c] /\ events'[c] = events[c]]_vars

\* C34: an event replicated to the relay by sync is stored in the relay's log
\* under the id it has on the originating client: every id named in an
\* applied reply is the id of an acked event in the relay's journal.
C34_AppliedIdsAreRelayIds ==
  \A c \in Clients : \A j \in DOMAIN toClient[c] :
    toClient[c][j].type = "applied" =>
      \A x \in toClient[c][j].data.appliedEventIds :
        \E e \in Range(events[Relay]) :
          e.id = x /\ e.status = "acked" /\ e.journalId # NoId

\* C35: no Event with status pending or rejected is ever deleted by the
\* cleanup of OutboxService: every event a step removes from a log is acked.
C35_CleanupDeletesAckedOnly ==
  [][\A d \in Devices : \A e \in Range(events[d]) :
       (\A f \in Range(events'[d]) : f.id # e.id) =>
         e.status \notin {"pending", "rejected"}]_vars

\* C36: the reply the relay produces for a sync is written to the sender's
\* socket only: every applied message and every failure ack waiting at a
\* client names only events that this client has sent.
C36_ReplyOnlyToSender ==
  \A c \in Clients : \A i \in DOMAIN toClient[c] :
    LET m == toClient[c][i]
    IN /\ m.type = "applied" => m.data.appliedEventIds \subseteq sent[c]
       /\ m.type = "ack" => m.data.eventId \in sent[c]

\* C37: overlapping role acquisitions never both succeed: a device never has
\* two connections of its own open, never holds a server object and a client
\* socket at the same time, and never runs more than one heartbeat timer.
C37_OneRoleAcquired ==
  \A d \in Devices :
    /\ Cardinality({s \in Sockets : socks[s].owner = d
                                    /\ socks[s].cstate = "open"}) <= 1
    /\ ~(server[d] # 0 /\ client[d] # 0)
    /\ timers[d] <= 1

\* C38: clientsInfo has no entry for a device that is not in
\* connectedClients, in every state, also after stop(), cleanup() and the
\* close of the server.
C38_ClientsInfoWithinConnected ==
  clientsInfo \subseteq {x \in Clients : clientSocket[x] # 0}

\* C39: on every device each order's non-empty createdByEventId and
\* updatedByEventId are ids of events stored in that device's own log, for
\* orders made locally and for orders made or updated by a replicated event.
C39_OrderEventIdsStored ==
  \A d \in Devices : \A o \in Range(orders[d]) :
    LET ids == {e.id : e \in Range(events[d])}
    IN /\ o.createdByEventId # NoId => o.createdByEventId \in ids
       /\ o.updatedByEventId # NoId => o.updatedByEventId \in ids

====
